---- MODULE Spec2Model ----
(***************************************************************************)
(* A model of package board (src/board/board.go): a flow-puzzle board, its *)
(* construction from a level text, and the operations several goroutines   *)
(* may call on it concurrently.                                            *)
(*                                                                         *)
(* Conventions.  A Point is a pair <<i, j>> of Go's 0-based indexes; the   *)
(* sequences of TLA+ are 1-based, so Go's grid[i][j] is grid[i+1][j+1].    *)
(* A text is a sequence of one-character strings.  A nil slice is <<>>.    *)
(* A flow (type Color, a slice of Point) is a slice header [ptr, len, cap] *)
(* into the heap mem of point arrays, so that two boards can share the     *)
(* storage of a flow, as Clone makes them do.                              *)
(***************************************************************************)
EXTENDS Integers, Sequences, FiniteSets, TLC

NL == "\n"

NoErr == "nil"
EOF == "EOF"
ErrReadingInput == "error reading input"
ErrBadSize == "Bad format, first line should indicate the size of the board"
ErrBadLine == "Bad format, lines should indicate the positions of 2 points"
ErrColor == "color index out of range"
ErrX == "X out of range"
ErrY == "Y out of range"
ErrOccupied == "Cell already occupied"
ErrNotAjacent == "Cells are not ajacent"
Panic == "panic"

(***************************************************************************)
(* Text helpers of the Go library, as far as New uses them.                *)
(***************************************************************************)

\* The value of a decimal digit, -1 for any other character.
DigitVal(ch) ==
    CASE ch = "0" -> 0 [] ch = "1" -> 1 [] ch = "2" -> 2 [] ch = "3" -> 3
      [] ch = "4" -> 4 [] ch = "5" -> 5 [] ch = "6" -> 6 [] ch = "7" -> 7
      [] ch = "8" -> 8 [] ch = "9" -> 9 [] OTHER -> -1

RECURSIVE DecimalVal(_)
DecimalVal(s) ==
    IF s = <<>> THEN 0
    ELSE 10 * DecimalVal(SubSeq(s, 1, Len(s) - 1)) + DigitVal(s[Len(s)])

\* strconv.Atoi: an optional sign, then one or more digits.
Atoi(s) ==
    LET signed == Len(s) > 0 /\ s[1] \in {"-", "+"}
        body == IF signed THEN Tail(s) ELSE s
    IN  IF body = <<>> \/ \E i \in 1..Len(body) : DigitVal(body[i]) < 0
        THEN [ok |-> FALSE, val |-> 0]
        ELSE [ok |-> TRUE,
              val |-> IF signed /\ s[1] = "-" THEN 0 - DecimalVal(body)
                      ELSE DecimalVal(body)]

\* strings.Split(s, sep) for a one-character sep: n separators give n+1 parts.
RECURSIVE Split(_, _)
Split(s, sep) ==
    IF \A i \in 1..Len(s) : s[i] # sep THEN <<s>>
    ELSE LET k == CHOOSE i \in 1..Len(s) :
                      s[i] = sep /\ \A j \in 1..(i - 1) : s[j] # sep
         IN  <<SubSeq(s, 1, k - 1)>> \o Split(SubSeq(s, k + 1, Len(s)), sep)

\* strings.Trim(s, "\n"): the leading and the trailing newlines removed.
RECURSIVE TrimNL(_)
TrimNL(s) ==
    IF s = <<>> THEN s
    ELSE IF s[1] = NL THEN TrimNL(Tail(s))
    ELSE IF s[Len(s)] = NL THEN TrimNL(SubSeq(s, 1, Len(s) - 1))
    ELSE s

\* bufio.Reader.ReadString('\n') on the rest of the stream: the text up to and
\* including the first newline, or all of the rest and io.EOF.
ReadString(rest) ==
    IF \E i \in 1..Len(rest) : rest[i] = NL
    THEN LET k == CHOOSE i \in 1..Len(rest) :
                      rest[i] = NL /\ \A j \in 1..(i - 1) : rest[j] # NL
         IN  [line |-> SubSeq(rest, 1, k), err |-> NoErr,
              rest |-> SubSeq(rest, k + 1, Len(rest))]
    ELSE [line |-> rest, err |-> EOF, rest |-> <<>>]

(***************************************************************************)
(* Points, flows and the heap of point arrays.                             *)
(***************************************************************************)

ZeroPoint == <<0, 0>>

\* The points of the slice with header h: the first h.len of its array.
Points(m, h) == SubSeq(m[h.ptr], 1, h.len)

\* A variant of AreAjacent that takes diagonal neighbours too.
AreAjacentOrDiagonal(point, nextPoint) ==
    LET dx == point[1] - nextPoint[1]
        dy == point[2] - nextPoint[2]
    IN  ~(dx * dx > 1 \/ dy * dy > 1 \/ dx * dx + dy * dy = 0)

AreAjacent(point, nextPoint) ==
    LET dx == point[1] - nextPoint[1]
        dy == point[2] - nextPoint[2]
    IN  ~(dx * dx > 1 \/ dy * dy > 1 \/ dx * dx + dy * dy # 1)

\* A variant of AreAllAjacent that stops one pair short.
AreAllAjacentButLast(c) ==
    \A i \in 1..Len(c) : i >= Len(c) - 1 \/ AreAjacent(c[i], c[i + 1])

AreAllAjacent(c) ==
    \A i \in 1..Len(c) : i = Len(c) \/ AreAjacent(c[i], c[i + 1])

(***************************************************************************)
(* Construction: New, getSize, insertPoints.  A board under construction   *)
(* is [grid, flows, mem]; each function returns what it returns in Go and  *)
(* panicked = TRUE where Go panics (an index out of range, a negative      *)
(* length).                                                                *)
(***************************************************************************)

getSize(s) ==
    LET split == Split(TrimNL(s), ",")
        lines == Atoi(split[1])
        cols == Atoi(split[2])
    IN  IF Len(split) # 2 THEN [lines |-> 0, cols |-> 0, err |-> ErrBadSize]
        ELSE IF ~lines.ok \/ ~cols.ok
        THEN [lines |-> 0, cols |-> 0, err |-> ErrBadSize]
        ELSE [lines |-> lines.val, cols |-> cols.val, err |-> NoErr]

\* One round of insertPoints' loop over the two point tokens: st is
\* [b, c, err, panicked], c the points collected so far.
insertPoint(st, point, index) ==
    IF st.err # NoErr \/ st.panicked THEN st
    ELSE
    LET coords == Split(point, ",")
        i == Atoi(coords[1])
        j == Atoi(coords[2])
        grid == st.b.grid
    IN  IF Len(coords) # 2 THEN [st EXCEPT !.err = ErrBadLine]
        ELSE IF ~i.ok \/ ~j.ok \/ i.val < 0 \/ i.val > Len(grid) \/ j.val < 0
        THEN [st EXCEPT !.err = ErrBadLine]
        ELSE IF Len(grid) = 0 THEN [st EXCEPT !.panicked = TRUE]
        ELSE IF j.val > Len(grid[1]) THEN [st EXCEPT !.err = ErrBadLine]
        ELSE IF i.val >= Len(grid) \/ j.val >= Len(grid[i.val + 1])
        THEN [st EXCEPT !.panicked = TRUE]
        ELSE [st EXCEPT !.b.grid[i.val + 1][j.val + 1] = index,
                        !.c = Append(st.c, <<i.val, j.val>>)]

insertPoints(board, line, index) ==
    IF line = <<>> THEN [b |-> board, err |-> NoErr, panicked |-> FALSE]
    ELSE
    LET points == Split(TrimNL(line), " ")
        st0 == [b |-> board, c |-> <<>>, err |-> NoErr, panicked |-> FALSE]
        st2 == insertPoint(insertPoint(st0, points[1], index), points[2], index)
    IN  IF Len(points) # 2
        THEN [b |-> board, err |-> ErrBadLine, panicked |-> FALSE]
        ELSE IF st2.err # NoErr \/ st2.panicked
        THEN [b |-> st2.b, err |-> st2.err, panicked |-> st2.panicked]
        ELSE \* append(c, p) twice from an empty slice: an array of capacity 2
             [b |-> [grid |-> st2.b.grid,
                     flows |-> Append(st2.b.flows,
                                      [ptr |-> Len(st2.b.mem) + 1,
                                       len |-> 2, cap |-> 2]),
                     mem |-> Append(st2.b.mem, st2.c)],
              err |-> NoErr, panicked |-> FALSE]

\* New's loop: for line := ""; ; line, err = r.ReadString('\n') { ... }
RECURSIVE NewLoop(_, _, _, _, _)
NewLoop(board, line, err, rest, index) ==
    LET r == insertPoints(board, line, index)
        next == ReadString(rest)
    IN  IF r.panicked THEN [board |-> r.b, err |-> NoErr, panicked |-> TRUE]
        ELSE IF err # NoErr \/ r.err # NoErr
        THEN [board |-> r.b, err |-> NoErr, panicked |-> FALSE]
        ELSE NewLoop(r.b, next.line, next.err, next.rest, index + 1)

EmptyBoard == [grid |-> <<>>, flows |-> <<>>, mem |-> <<>>]

New(txt) ==
    LET first == ReadString(txt)
        size == getSize(first.line)
        grid == [i \in 1..size.lines |->
                    IF i <= size.cols THEN [j \in 1..size.cols |-> 0] ELSE <<>>]
    IN  IF first.err # NoErr
        THEN [board |-> EmptyBoard, err |-> ErrReadingInput, panicked |-> FALSE]
        ELSE IF size.err # NoErr
        THEN [board |-> EmptyBoard, err |-> size.err, panicked |-> FALSE]
        ELSE IF size.lines < 0 \/ size.cols > size.lines
        THEN [board |-> EmptyBoard, err |-> NoErr, panicked |-> TRUE]
        ELSE NewLoop([grid |-> grid, flows |-> <<>>, mem |-> <<>>],
                     <<>>, NoErr, first.rest, 0)

(***************************************************************************)
(* Go's slices over the heap.  mem maps the address of each live point     *)
(* array to its contents (as many points as its capacity).  Arrays that    *)
(* nothing refers to any more are dropped, as the garbage collector does.  *)
(***************************************************************************)

\* The address of a new array: the smallest one not in use.
Alloc(m) ==
    CHOOSE a \in 1..(Cardinality(DOMAIN m) + 1) :
        a \notin DOMAIN m /\ \A x \in 1..(a - 1) : x \in DOMAIN m

Store(m, a, arr) == [x \in (DOMAIN m) \cup {a} |-> IF x = a THEN arr ELSE m[x]]

Collect(m, live) == [x \in (DOMAIN m) \cap live |-> m[x]]

Zeros(n) == [i \in 1..n |-> ZeroPoint]

\* The capacity append gives a slice that must grow from capacity cap to hold
\* need elements (runtime.growslice for small slices of 16-byte elements).
GrowCap(cap, need) == IF need > cap + cap THEN need ELSE cap + cap

\* append(s, elems...) for the slice with header h: in place when the capacity
\* allows, in a new array otherwise.  Returns the heap and the new header.
GoAppend(m, h, elems) ==
    LET need == h.len + Len(elems)
        put(arr) == [i \in 1..Len(arr) |->
                        IF i > h.len /\ i <= need THEN elems[i - h.len]
                        ELSE arr[i]]
        a == Alloc(m)
        ncap == GrowCap(h.cap, need)
    IN  IF need <= h.cap
        THEN [mem |-> [m EXCEPT ![h.ptr] = put(m[h.ptr])],
              hdr |-> [h EXCEPT !.len = need]]
        ELSE [mem |-> Store(m, a, put(Points(m, h) \o Zeros(ncap - h.len))),
              hdr |-> [ptr |-> a, len |-> need, cap |-> ncap]]

(***************************************************************************)
(* The board and its accessors.  A board is [grid, flows, mu]; mu is the   *)
(* embedded sync.RWMutex: w is the goroutine that holds the writers' mutex *)
(* (0: none), from the start of Lock to Unlock, and readers counts the     *)
(* read locks held.                                                        *)
(***************************************************************************)

Lines(b) == Len(b.grid)

\* Panics on a grid without rows; its callers here test that first.
Cols(b) == Len(b.grid[1])

FreeMutex == [w |-> 0, readers |-> 0]

\* A variant of WriterMayEnter that does not wait for the readers.
WriterMayEnterAtOnce(mu, t) == mu.w = t

\* Lock: once it holds the writers' mutex, a writer waits for the read locks
\* held to be released.
WriterMayEnter(mu, t) == mu.w = t /\ mu.readers = 0

\* RLock: a reader waits while a writer holds or awaits the lock.
ReaderMayEnter(mu) == mu.w = 0

(***************************************************************************)
(* ColorCell, lines 169-191: the checks, and the spliced sequence.         *)
(***************************************************************************)

\* A variant of Occupied with the comparison the wrong way round, which finds
\* no cell occupied.
OccupiedNegative(grid, line, col) == grid[line + 1][col + 1] < 0

\* b.grid[line][col] != 0
Occupied(grid, line, col) == grid[line + 1][col + 1] # 0

\* A variant of CopyFlow that makes no copy: c is the flow's own slice.
AliasFlow(m, h) == [mem |-> m, hdr |-> h]

\* c := make([]Point, sliceLen, sliceLen+1), then the copy loop.
CopyFlow(m, h) ==
    LET a == Alloc(m)
    IN  [mem |-> Store(m, a, Points(m, h) \o <<ZeroPoint>>),
         hdr |-> [ptr |-> a, len |-> h.len, cap |-> h.len + 1]]

\* A variant of InsertPoint that appends the new point after the last one.
InsertAtEnd(m, c, p) == GoAppend(m, c, <<p>>)

\* updatedC := append(c[:len(c)-1], Point{line, col}, c[len(c)-1])
\* (the arguments are evaluated before append writes)
InsertPoint(m, c, p) ==
    GoAppend(m, [c EXCEPT !.len = c.len - 1], <<p, m[c.ptr][c.len]>>)

\* A variant of CheckedPart that hands over all of updatedC.
CheckedWhole(m, updatedC, n) == Points(m, updatedC)

\* updatedC[:len(c)], the part ColorCell hands to AreAllAjacent
CheckedPart(m, updatedC, n) == Points(m, [updatedC EXCEPT !.len = n])

\* What ColorCell decides under the lock: res is the error it returns (NoErr
\* when it goes on to write, Panic when it panics), hdr the header of
\* updatedC, mem the heap with c allocated.
ColorCellChecks(b, m, colorIndex, line, col) ==
    LET fail(e) == [res |-> e, hdr |-> [ptr |-> 0, len |-> 0, cap |-> 0],
                    mem |-> m]
    IN  IF colorIndex < 0 \/ colorIndex >= Len(b.flows) THEN fail(ErrColor)
        ELSE IF line < 0 \/ line >= Lines(b) THEN fail(ErrX)
        ELSE IF col < 0 \/ col >= Cols(b) THEN fail(ErrY)
        ELSE IF col >= Len(b.grid[line + 1]) THEN fail(Panic)
        ELSE IF Occupied(b.grid, line, col) THEN fail(ErrOccupied)
        ELSE IF b.flows[colorIndex + 1].len = 0 THEN fail(Panic)
        ELSE
        LET h == b.flows[colorIndex + 1]
            c == CopyFlow(m, h)
            u == InsertPoint(c.mem, c.hdr, <<line, col>>)
        IN  IF ~AreAllAjacent(CheckedPart(u.mem, u.hdr, h.len))
            THEN [res |-> ErrNotAjacent, hdr |-> u.hdr, mem |-> u.mem]
            ELSE [res |-> NoErr, hdr |-> u.hdr, mem |-> u.mem]

(***************************************************************************)
(* Solved, Clone and the renderers: what one step of each reads.           *)
(***************************************************************************)

\* The first cell at or after (i, j), row by row, that grid holds (a nil row
\* holds none); <<Len(grid), 0>> when there is none.
RECURSIVE NextCell(_, _, _)
NextCell(grid, i, j) ==
    IF i >= Len(grid) THEN <<Len(grid), 0>>
    ELSE IF j < Len(grid[i + 1]) THEN <<i, j>>
    ELSE NextCell(grid, i + 1, 0)

\* The number of entries of ColorFuncs.
PaletteSize == 8

\* GridString: per row, per cell, blank (<<>>) or the palette entry and the
\* number printed.
RenderGrid(grid) ==
    [i \in 1..Len(grid) |->
        [j \in 1..Len(grid[i]) |->
            IF grid[i][j] = 0 THEN <<>>
            ELSE <<grid[i][j] % PaletteSize, grid[i][j]>>]]

\* ColorsString: per flow, its points in order; mark is the "[???]->" printed
\* before the last point of a flow that is not adjacent all along.
RenderColors(m, flows) ==
    [k \in 1..Len(flows) |->
        LET c == Points(m, flows[k])
        IN  [i \in 1..Len(c) |->
                [p |-> c[i], mark |-> i = Len(c) /\ ~AreAllAjacent(c)]]]

(***************************************************************************)
(* The state.  Goroutine t is at pc[t] in a call on board bd[t] with the   *)
(* arguments args[t]; tmp[t] holds the call's locals and res[t] what it    *)
(* returns.  The arguments of a call are drawn when the call first uses    *)
(* them, under its lock, and kept only as long as the call uses them.      *)
(* env is what the program around the board holds: the level text it gave  *)
(* New (env.input) and, where a program keeps them, the calls it planned   *)
(* and the results it got back.                                            *)
(***************************************************************************)

VARIABLES boards, mem, pc, bd, args, tmp, res, env

vars == <<boards, mem, pc, bd, args, tmp, res, env>>

NumThreads == 2
MaxBoards == 2
MaxCoord == 2
MaxColor == 1

Threads == 1..NumThreads

\* The arguments tried: every color index, line and column up to the bounds
\* (some of them out of a board's range), and a negative one of each.
CellArgs ==
    ((0..MaxColor) \X (0..MaxCoord) \X (0..MaxCoord))
    \cup {<<0 - 1, 0, 0>>, <<0, 0 - 1, 0>>, <<0, 0, 0 - 1>>}
GetArgs ==
    ((0..MaxCoord) \X (0..MaxCoord)) \cup {<<0 - 1, 0>>, <<0, 0 - 1>>}

\* No result (yet).  A result is a record of one field, named after its
\* kind: err for ColorCell's error, val for an int, ok for a bool, grid and
\* colors for the two strings.
NoRes == <<>>

\* What a board holds: its grid and the points of each flow.
View(b, m) ==
    [grid |-> b.grid, flows |-> [k \in 1..Len(b.flows) |-> Points(m, b.flows[k])]]

\* The levels the boards are built from.
Level2 ==
    <<"2", ",", "2", NL, "0", ",", "0", " ", "1", ",", "1", NL>>
Level3 ==
    <<"2", ",", "2", NL, "0", ",", "0", " ", "0", ",", "1", NL,
      "0", ",", "1", " ", "1", ",", "1", NL>>
Level4 ==
    <<"2", ",", "2", NL, "0", ",", "0", " ", "1", ",", "0", NL>>
Level5 ==
    <<"3", ",", "2", NL, "1", ",", "0", " ", "0", ",", "0">>
Levels == {Level2, Level3, Level4, Level5}

\* New has made n = [board, err, panicked] of the text txt, without an error:
\* its board is board 1.
Made(n, txt) ==
    /\ ~n.panicked
    /\ n.err = NoErr
    /\ boards = <<[grid |-> n.board.grid, flows |-> n.board.flows,
                   mu |-> FreeMutex]>>
    /\ mem = n.board.mem
    /\ env = [input |-> txt]

Init ==
    /\ \E txt \in Levels : Made(New(txt), txt)
    /\ pc = [t \in Threads |-> "idle"]
    /\ bd = [t \in Threads |-> 0]
    /\ args = [t \in Threads |-> <<>>]
    /\ tmp = [t \in Threads |-> <<>>]
    /\ res = [t \in Threads |-> NoRes]

\* The arrays something still refers to: the flows of the boards, updatedC of
\* a ColorCell under way, the flows a Clone under way has copied.
Live(bs, pcs, tmps) ==
    UNION {{bs[b].flows[k].ptr : k \in 1..Len(bs[b].flows)} : b \in 1..Len(bs)}
    \cup {tmps[t].ptr : t \in {u \in Threads : pcs[u] \in {"cc_grid", "cc_flow"}}}
    \cup UNION {{tmps[t].flows[k].ptr : k \in 1..Len(tmps[t].flows)} :
                t \in {u \in Threads : pcs[u] \in {"cl_grid", "cl_flows", "cl_ret"}}}

\* A call is over: the goroutine is idle again.
Finish(t) ==
    /\ pc' = [pc EXCEPT ![t] = "idle"]
    /\ bd' = [bd EXCEPT ![t] = 0]
    /\ args' = [args EXCEPT ![t] = <<>>]
    /\ tmp' = [tmp EXCEPT ![t] = <<>>]
    /\ res' = [res EXCEPT ![t] = NoRes]

(***************************************************************************)
(* ColorCell                                                               *)
(***************************************************************************)

CallColorCell(t, b) ==
    /\ pc[t] = "idle"
    /\ pc' = [pc EXCEPT ![t] = "cc_lock"]
    /\ bd' = [bd EXCEPT ![t] = b]
    /\ UNCHANGED <<boards, mem, args, tmp, res>>
    /\ UNCHANGED env

\* b.Lock(), first half: the writers' mutex.
CCLock(t) ==
    /\ pc[t] = "cc_lock"
    /\ boards[bd[t]].mu.w = 0
    /\ boards' = [boards EXCEPT ![bd[t]].mu.w = t]
    /\ pc' = [pc EXCEPT ![t] = "cc_wait"]
    /\ UNCHANGED <<mem, bd, args, tmp, res>>
    /\ UNCHANGED env

\* b.Lock() returns, and lines 169-191 run under the lock.
CCEnter(t, colorIndex, line, col) ==
    /\ pc[t] = "cc_wait"
    /\ WriterMayEnter(boards[bd[t]].mu, t)
    /\ LET out == ColorCellChecks(boards[bd[t]], mem, colorIndex, line, col)
       IN  /\ args' = [args EXCEPT ![t] = IF out.res = NoErr
                                          THEN <<colorIndex, line, col>>
                                          ELSE <<>>]
           /\ pc' = [pc EXCEPT ![t] = IF out.res = NoErr THEN "cc_grid"
                                      ELSE "cc_unlock"]
           /\ tmp' = [tmp EXCEPT ![t] = IF out.res = NoErr THEN out.hdr
                                        ELSE <<>>]
           /\ res' = [res EXCEPT ![t] = [err |-> out.res]]
           /\ mem' = Collect(out.mem, Live(boards, pc', tmp'))
    /\ UNCHANGED <<boards, bd>>
    /\ UNCHANGED env

\* b.grid[line][col] = colorIndex + 1
CCGrid(t) ==
    /\ pc[t] = "cc_grid"
    /\ boards' = [boards EXCEPT
                    ![bd[t]].grid[args[t][2] + 1][args[t][3] + 1] = args[t][1] + 1]
    /\ pc' = [pc EXCEPT ![t] = "cc_flow"]
    /\ UNCHANGED <<mem, bd, args, tmp, res>>
    /\ UNCHANGED env

\* b.flows[colorIndex] = updatedC
CCFlow(t) ==
    /\ pc[t] = "cc_flow"
    /\ boards' = [boards EXCEPT ![bd[t]].flows[args[t][1] + 1] = tmp[t]]
    /\ pc' = [pc EXCEPT ![t] = "cc_unlock"]
    /\ args' = [args EXCEPT ![t] = <<>>]
    /\ tmp' = [tmp EXCEPT ![t] = <<>>]
    /\ mem' = Collect(mem, Live(boards', pc', tmp'))
    /\ UNCHANGED <<bd, res>>
    /\ UNCHANGED env

\* A variant of CCUnlock for an Unlock that is not deferred but placed
\* before the final return nil: the error returns keep the lock.
CCUnlockOnSuccess(t) ==
    /\ pc[t] = "cc_unlock"
    /\ boards' = IF res[t].err = NoErr
                 THEN [boards EXCEPT ![bd[t]].mu.w = 0]
                 ELSE boards
    /\ Finish(t)
    /\ UNCHANGED mem
    /\ UNCHANGED env

\* The deferred b.Unlock(); the call returns res[t].
DeferredUnlock(t) ==
    /\ pc[t] = "cc_unlock"
    /\ boards' = [boards EXCEPT ![bd[t]].mu.w = 0]
    /\ Finish(t)
    /\ UNCHANGED mem

CCUnlock(t) ==
    /\ DeferredUnlock(t)
    /\ UNCHANGED env

(***************************************************************************)
(* Get, GridString, ColorsString: under the read lock                      *)
(***************************************************************************)

CallGet(t, b) ==
    /\ pc[t] = "idle"
    /\ pc' = [pc EXCEPT ![t] = "get_rlock"]
    /\ bd' = [bd EXCEPT ![t] = b]
    /\ UNCHANGED <<boards, mem, args, tmp, res>>
    /\ UNCHANGED env

CallGridString(t, b) ==
    /\ pc[t] = "idle"
    /\ pc' = [pc EXCEPT ![t] = "gs_rlock"]
    /\ bd' = [bd EXCEPT ![t] = b]
    /\ UNCHANGED <<boards, mem, args, tmp, res>>
    /\ UNCHANGED env

CallColorsString(t, b) ==
    /\ pc[t] = "idle"
    /\ pc' = [pc EXCEPT ![t] = "cs_rlock"]
    /\ bd' = [bd EXCEPT ![t] = b]
    /\ UNCHANGED <<boards, mem, args, tmp, res>>
    /\ UNCHANGED env

\* b.RLock() returns and the body reads the board; nothing writes it before
\* the read lock is released.
GetRead(t, line, col) ==
    /\ pc[t] = "get_rlock"
    /\ ReaderMayEnter(boards[bd[t]].mu)
    /\ LET grid == boards[bd[t]].grid
           inGrid == /\ 0 <= line /\ line < Len(grid)
                     /\ 0 <= col /\ col < Len(grid[line + 1])
       IN  /\ res' = [res EXCEPT ![t] =
                        IF inGrid THEN [val |-> grid[line + 1][col + 1]]
                        ELSE NoRes]
           /\ pc' = [pc EXCEPT ![t] = IF inGrid THEN "get_runlock"
                                      ELSE "r_panic"]
    /\ boards' = [boards EXCEPT ![bd[t]].mu.readers = @ + 1]
    /\ UNCHANGED <<mem, bd, args, tmp>>
    /\ UNCHANGED env

GridStringRead(t) ==
    /\ pc[t] = "gs_rlock"
    /\ ReaderMayEnter(boards[bd[t]].mu)
    /\ res' = [res EXCEPT ![t] =
                 IF Len(boards[bd[t]].grid) = 0 THEN NoRes
                 ELSE [grid |-> RenderGrid(boards[bd[t]].grid)]]
    /\ boards' = [boards EXCEPT ![bd[t]].mu.readers = @ + 1]
    /\ pc' = [pc EXCEPT ![t] = IF Len(boards[bd[t]].grid) = 0 THEN "r_panic"
                               ELSE "gs_runlock"]
    /\ UNCHANGED <<mem, bd, args, tmp>>
    /\ UNCHANGED env

ColorsStringRead(t) ==
    /\ pc[t] = "cs_rlock"
    /\ ReaderMayEnter(boards[bd[t]].mu)
    /\ res' = [res EXCEPT ![t] =
                 [colors |-> RenderColors(mem, boards[bd[t]].flows)]]
    /\ boards' = [boards EXCEPT ![bd[t]].mu.readers = @ + 1]
    /\ pc' = [pc EXCEPT ![t] = "cs_runlock"]
    /\ UNCHANGED <<mem, bd, args, tmp>>
    /\ UNCHANGED env

\* The deferred b.RUnlock(); the call returns res[t], or goes on panicking
\* (from r_panic: an index out of range).
RUnlock(t) ==
    /\ pc[t] \in {"get_runlock", "gs_runlock", "cs_runlock", "r_panic"}
    /\ boards' = [boards EXCEPT ![bd[t]].mu.readers = @ - 1]
    /\ Finish(t)
    /\ UNCHANGED mem
    /\ UNCHANGED env

(***************************************************************************)
(* Solved: no lock; one step per cell of the grid, then one per flow.      *)
(***************************************************************************)

\* Where Solved goes once the grid is read: over the flows, or to its end.
SolvedAfterGrid(t, b) ==
    IF Len(boards[b].flows) = 0
    THEN /\ pc' = [pc EXCEPT ![t] = "ret"]
         /\ res' = [res EXCEPT ![t] = [ok |-> TRUE]]
         /\ tmp' = [tmp EXCEPT ![t] = <<>>]
    ELSE /\ pc' = [pc EXCEPT ![t] = "sv_flows"]
         /\ res' = res
         /\ tmp' = [tmp EXCEPT ![t] = [f |-> 0]]

CallSolved(t, b) ==
    /\ pc[t] = "idle"
    /\ bd' = [bd EXCEPT ![t] = b]
    /\ IF Lines(boards[b]) = 0 \/ Cols(boards[b]) = 0
       THEN SolvedAfterGrid(t, b)
       ELSE /\ pc' = [pc EXCEPT ![t] = "sv_grid"]
            /\ tmp' = [tmp EXCEPT ![t] = [i |-> 0, j |-> 0]]
            /\ res' = res
    /\ UNCHANGED <<boards, mem, args>>
    /\ UNCHANGED env

\* if b.grid[i][j] == 0 { return false }, and the loops' steps to the next cell
SolvedCell(t) ==
    /\ pc[t] = "sv_grid"
    /\ LET b == boards[bd[t]]
           i == tmp[t].i
           j == tmp[t].j
       IN  IF j >= Len(b.grid[i + 1])
           THEN /\ pc' = [pc EXCEPT ![t] = "panicked"]
                /\ res' = res
                /\ tmp' = [tmp EXCEPT ![t] = <<>>]
           ELSE IF b.grid[i + 1][j + 1] = 0
           THEN /\ pc' = [pc EXCEPT ![t] = "ret"]
                /\ res' = [res EXCEPT ![t] = [ok |-> FALSE]]
                /\ tmp' = [tmp EXCEPT ![t] = <<>>]
           ELSE IF j + 1 < Cols(b)
           THEN /\ tmp' = [tmp EXCEPT ![t] = [i |-> i, j |-> j + 1]]
                /\ UNCHANGED <<pc, res>>
           ELSE IF i + 1 < Lines(b)
           THEN /\ tmp' = [tmp EXCEPT ![t] = [i |-> i + 1, j |-> 0]]
                /\ UNCHANGED <<pc, res>>
           ELSE SolvedAfterGrid(t, bd[t])
    /\ UNCHANGED <<boards, mem, bd, args>>
    /\ UNCHANGED env

\* if !AreAllAjacent(c) { return false }, for the next flow c
SolvedFlow(t) ==
    /\ pc[t] = "sv_flows"
    /\ LET b == boards[bd[t]]
           f == tmp[t].f
       IN  IF ~AreAllAjacent(Points(mem, b.flows[f + 1]))
           THEN /\ pc' = [pc EXCEPT ![t] = "ret"]
                /\ res' = [res EXCEPT ![t] = [ok |-> FALSE]]
                /\ tmp' = [tmp EXCEPT ![t] = <<>>]
           ELSE IF f + 1 < Len(b.flows)
           THEN /\ tmp' = [tmp EXCEPT ![t] = [f |-> f + 1]]
                /\ UNCHANGED <<pc, res>>
           ELSE /\ pc' = [pc EXCEPT ![t] = "ret"]
                /\ res' = [res EXCEPT ![t] = [ok |-> TRUE]]
                /\ tmp' = [tmp EXCEPT ![t] = <<>>]
    /\ UNCHANGED <<boards, mem, bd, args>>
    /\ UNCHANGED env

\* Solved returns res[t] (as do Lines and Cols, from dim_ret, and New, from
\* new_ret), or its panic (an index out of range) reaches the caller.
Return(t) ==
    /\ pc[t] \in {"ret", "dim_ret", "new_ret", "panicked"}
    /\ Finish(t)
    /\ UNCHANGED <<boards, mem>>
    /\ UNCHANGED env

(***************************************************************************)
(* Lines and Cols: no lock, one read.                                      *)
(***************************************************************************)

\* return len(b.grid)
CallLines(t, b) ==
    /\ pc[t] = "idle"
    /\ bd' = [bd EXCEPT ![t] = b]
    /\ pc' = [pc EXCEPT ![t] = "dim_ret"]
    /\ res' = [res EXCEPT ![t] = [val |-> Lines(boards[b])]]
    /\ UNCHANGED <<boards, mem, args, tmp>>
    /\ UNCHANGED env

\* return len(b.grid[0])
CallCols(t, b) ==
    /\ pc[t] = "idle"
    /\ bd' = [bd EXCEPT ![t] = b]
    /\ IF Len(boards[b].grid) = 0
       THEN /\ pc' = [pc EXCEPT ![t] = "panicked"]
            /\ res' = res
       ELSE /\ pc' = [pc EXCEPT ![t] = "dim_ret"]
            /\ res' = [res EXCEPT ![t] = [val |-> Cols(boards[b])]]
    /\ UNCHANGED <<boards, mem, args, tmp>>
    /\ UNCHANGED env

(***************************************************************************)
(* Clone: no lock; one step per cell copied, then one per flow.  tmp[t] is *)
(* newBoard with the place the loops are at.                               *)
(***************************************************************************)

\* Where Clone goes from the cell (or the flow) it is at.
CloneAt(nb, b, cell) ==
    IF cell[1] < Len(b.grid) THEN [nb EXCEPT !.i = cell[1], !.j = cell[2]]
    ELSE [nb EXCEPT !.i = Len(b.grid), !.j = 0]

ClonePc(b, cell) ==
    IF cell[1] < Len(b.grid) THEN "cl_grid"
    ELSE IF Len(b.flows) > 0 THEN "cl_flows" ELSE "cl_ret"

\* Lines 142-151: newBoard with a grid of lines rows of cols zeros.
CallClone(t, b) ==
    /\ pc[t] = "idle"
    /\ Len(boards[b].grid) > 0
    /\ LET nb == [grid |-> [i \in 1..Lines(boards[b]) |->
                              [j \in 1..Cols(boards[b]) |-> 0]],
                  flows |-> <<>>, i |-> 0, j |-> 0, f |-> 0]
           cell == NextCell(boards[b].grid, 0, 0)
       IN  /\ tmp' = [tmp EXCEPT ![t] = CloneAt(nb, boards[b], cell)]
           /\ pc' = [pc EXCEPT ![t] = ClonePc(boards[b], cell)]
    /\ bd' = [bd EXCEPT ![t] = b]
    /\ UNCHANGED <<boards, mem, args, res>>
    /\ UNCHANGED env

\* newBoard.grid[j][k] = b.grid[j][k]
CloneCell(t) ==
    /\ pc[t] = "cl_grid"
    /\ LET b == boards[bd[t]]
           i == tmp[t].i
           j == tmp[t].j
           nb == [tmp[t] EXCEPT !.grid[i + 1][j + 1] = b.grid[i + 1][j + 1]]
           cell == NextCell(b.grid, i, j + 1)
       IN  /\ tmp' = [tmp EXCEPT ![t] = CloneAt(nb, b, cell)]
           /\ pc' = [pc EXCEPT ![t] = ClonePc(b, cell)]
    /\ UNCHANGED <<boards, mem, bd, args, res>>
    /\ UNCHANGED env

\* newBoard.flows = append(newBoard.flows, flow): the header, not the points
CloneFlow(t) ==
    /\ pc[t] = "cl_flows"
    /\ LET b == boards[bd[t]]
           f == tmp[t].f
       IN  /\ tmp' = [tmp EXCEPT ![t] =
                        [@ EXCEPT !.flows = Append(@, b.flows[f + 1]),
                                  !.f = f + 1]]
           /\ pc' = [pc EXCEPT ![t] = IF f + 1 < Len(b.flows) THEN "cl_flows"
                                      ELSE "cl_ret"]
    /\ UNCHANGED <<boards, mem, bd, args, res>>
    /\ UNCHANGED env

\* return newBoard, to a caller that keeps it: one more board to call.
CloneReturn(t) ==
    /\ pc[t] = "cl_ret"
    /\ Len(boards) < MaxBoards
    /\ boards' = Append(boards, [grid |-> tmp[t].grid, flows |-> tmp[t].flows,
                                 mu |-> FreeMutex])
    /\ Finish(t)
    /\ UNCHANGED mem
    /\ UNCHANGED env

\* return newBoard, to a caller that only looks at it and drops it.
CloneDrop(t) ==
    /\ pc[t] = "cl_ret"
    /\ Finish(t)
    /\ mem' = Collect(mem, Live(boards, pc', tmp'))
    /\ UNCHANGED boards
    /\ UNCHANGED env

(***************************************************************************)
(* Two programs around the board.  In Spec the goroutines 1..NumThreads    *)
(* call the board that New built, in any order and at any pace, and drop   *)
(* the clones they take.  In SpecClone one goroutine makes its calls one   *)
(* after the other, keeps the clones it takes (MaxBoards boards at most)   *)
(* and calls them too.                                                     *)
(***************************************************************************)

\* Goroutine t starts a call on board b.
Call(t, b) ==
    \/ CallColorCell(t, b)
    \/ CallGet(t, b)
    \/ CallGridString(t, b)
    \/ CallColorsString(t, b)
    \/ CallSolved(t, b)
    \/ CallClone(t, b)

\* Goroutine t takes the next step of its call.
Step(t) ==
    \/ CCLock(t)
    \/ \E a \in CellArgs : CCEnter(t, a[1], a[2], a[3])
    \/ CCGrid(t)
    \/ CCFlow(t)
    \/ CCUnlock(t)
    \/ \E a \in GetArgs : GetRead(t, a[1], a[2])
    \/ GridStringRead(t)
    \/ ColorsStringRead(t)
    \/ RUnlock(t)
    \/ SolvedCell(t)
    \/ SolvedFlow(t)
    \/ Return(t)
    \/ CloneCell(t)
    \/ CloneFlow(t)

Next == \E t \in Threads : Call(t, 1) \/ Step(t) \/ CloneDrop(t)

Spec == Init /\ [][Next]_vars

NextClone ==
    \/ \E b \in 1..Len(boards) : Call(1, b)
    \/ Step(1)
    \/ CloneReturn(1)
    \/ CloneDrop(1)

SpecClone == Init /\ [][NextClone]_vars

(***************************************************************************)
(* A third program, for what must eventually happen: two goroutines call   *)
(* the board of a small level, Lines and Cols included, and each call      *)
(* under way goes on.  A goroutine that is runnable is eventually run; one *)
(* that waits for the lock gets it if the lock is free again and again     *)
(* (sync.Mutex hands the lock to a waiter that has waited long, and        *)
(* RWMutex.Unlock lets the waiting readers in before the next writer).     *)
(***************************************************************************)

LiveLevels == {Level2, Level4, Level5}

\* The goroutines that make calls in this program.
LiveThreads == {1, 2}

InitLive == Init /\ env.input \in LiveLevels

\* The steps of goroutine t that end or advance a call under way.
Advance(t) == Step(t) \/ CloneDrop(t)

NextLive ==
    \E t \in LiveThreads :
        \/ Call(t, 1)
        \/ CallLines(t, 1)
        \/ CallCols(t, 1)
        \/ Advance(t)

\* Where each goroutine is in its call: its pc and, in the loops of Solved
\* and Clone, the cell or the flow it is at.  Every step of a call changes
\* it.
Position ==
    [t \in Threads |->
        <<pc[t],
          IF pc[t] = "sv_grid" THEN <<tmp[t].i, tmp[t].j>>
          ELSE IF pc[t] = "sv_flows" THEN <<tmp[t].f, 0>>
          ELSE IF pc[t] \in {"cl_grid", "cl_flows"}
               THEN <<tmp[t].i, tmp[t].j + tmp[t].f>>
          ELSE <<0, 0>>>>]

SpecLive ==
    /\ InitLive
    /\ [][NextLive]_vars
    /\ \A t \in LiveThreads : SF_Position(Advance(t))

(***************************************************************************)
(* The vocabulary of the properties, kept apart from the functions of the  *)
(* program: adjacency on the grid, chains of points, what a board shows.   *)
(***************************************************************************)

\* p and q are neighbours on the grid: same line and columns one apart, or
\* same column and lines one apart.
Adjacent4(p, q) ==
    \/ p[1] = q[1] /\ (p[2] = q[2] + 1 \/ q[2] = p[2] + 1)
    \/ p[2] = q[2] /\ (p[1] = q[1] + 1 \/ q[1] = p[1] + 1)

\* Every two consecutive points of s are neighbours.
Chain(s) == \A i \in 1..(Len(s) - 1) : Adjacent4(s[i], s[i + 1])

AllButLast(s) == SubSeq(s, 1, Len(s) - 1)

LastOf(s) == s[Len(s)]

\* What board number b shows: its grid and its flows' point sequences.
BoardView(b) == View(boards[b], mem)

AllViews == [b \in 1..Len(boards) |-> BoardView(b)]

\* Goroutine t holds the lock of its board and is about to run ColorCell's
\* checks.
Entering(t) == pc[t] = "cc_wait" /\ WriterMayEnter(boards[bd[t]].mu, t)

\* The arguments a = <<k, r, c>> pass ColorCell's color, range and occupancy
\* checks on board b.
PassesChecks(b, a) ==
    /\ 0 <= a[1] /\ a[1] < Len(b.flows)
    /\ 0 <= a[2] /\ a[2] < Lines(b)
    /\ 0 <= a[3] /\ a[3] < Cols(b)
    /\ a[3] < Len(b.grid[a[2] + 1])
    /\ b.grid[a[2] + 1][a[3] + 1] = 0

\* The errors ColorCell returns.
CCErrors == {ErrColor, ErrX, ErrY, ErrOccupied, ErrNotAjacent}

\* Goroutine t is in a ColorCell call that has passed its checks and has not
\* yet returned.
Writing(t) == pc[t] \in {"cc_grid", "cc_flow"}

(***************************************************************************)
(* C1.  The acceptance test of ColorCell.                                  *)
(***************************************************************************)

\* C1, as stated: a ColorCell(k, r, c) that passes the color, range and
\* occupancy checks is accepted if every two consecutive points of the whole
\* spliced sequence (flow k with (r, c) inserted before its last point) are
\* neighbours, the pair (new point, last point) included, and fails with the
\* not-adjacent error otherwise.  The program does not behave so.
C1_AcceptedIffWholeSequenceAdjacent ==
    \A t \in Threads : Entering(t) =>
        \A a \in CellArgs : PassesChecks(boards[bd[t]], a) =>
            LET f == Points(mem, boards[bd[t]].flows[a[1] + 1])
                out == ColorCellChecks(boards[bd[t]], mem, a[1], a[2], a[3])
            IN  out.res = IF Chain(AllButLast(f) \o <<<<a[2], a[3]>>, LastOf(f)>>)
                          THEN NoErr ELSE ErrNotAjacent

\* C1, amended: a ColorCell(k, r, c) that passes the color, range and
\* occupancy checks is accepted if and only if every two consecutive points
\* of flow k without its last point, followed by (r, c), are neighbours; the
\* pair (new point, last point) is not looked at.  Otherwise it fails with
\* the not-adjacent error.
C1_AcceptedIffAdjacentUpToNewPoint ==
    \A t \in Threads : Entering(t) =>
        \A a \in CellArgs : PassesChecks(boards[bd[t]], a) =>
            LET f == Points(mem, boards[bd[t]].flows[a[1] + 1])
                out == ColorCellChecks(boards[bd[t]], mem, a[1], a[2], a[3])
            IN  out.res = IF Chain(AllButLast(f) \o <<<<a[2], a[3]>>>>)
                          THEN NoErr ELSE ErrNotAjacent

\* A ColorCell call was accepted although its new point is no neighbour of
\* the flow's last point.
C1_AcceptedAwayFromLastPoint ==
    \E t \in Threads :
        /\ pc[t] = "cc_grid"
        /\ LET u == Points(mem, tmp[t])
           IN  /\ Chain(AllButLast(u))
               /\ ~Adjacent4(u[Len(u) - 1], LastOf(u))

(***************************************************************************)
(* C2.  What a successful ColorCell changes.                               *)
(***************************************************************************)

\* C2: a successful ColorCell(k, r, c) changes the board in two writes and
\* nothing else changes the board meanwhile: the checks change nothing; the
\* first write sets grid[r][c] to k+1 and leaves every other cell and every
\* flow alone; the second replaces flow k by its points but the last, then
\* (r, c), then its last point, and leaves the grid and every other flow
\* alone; the call then returns nil.
C2_SuccessfulColorCell ==
    [][\A t \in Threads :
        LET b == bd[t]
            k == args[t][1]
            r == args[t][2]
            c == args[t][3]
            v == BoardView(b)
            v2 == View(boards'[b], mem')
        IN  /\ (pc[t] = "cc_wait" /\ pc'[t] = "cc_grid") => v2 = v
            /\ (pc[t] = "cc_grid" /\ pc'[t] = "cc_grid") => v2 = v
            /\ (pc[t] = "cc_grid" /\ pc'[t] # "cc_grid") =>
                   /\ pc'[t] = "cc_flow"
                   /\ v2 = [v EXCEPT !.grid[r + 1][c + 1] = k + 1]
            /\ (pc[t] = "cc_flow" /\ pc'[t] = "cc_flow") => v2 = v
            /\ (pc[t] = "cc_flow" /\ pc'[t] # "cc_flow") =>
                   /\ pc'[t] = "cc_unlock" /\ res'[t].err = NoErr
                   /\ v.grid[r + 1][c + 1] = k + 1
                   /\ v2 = [v EXCEPT !.flows[k + 1] =
                              AllButLast(@) \o <<<<r, c>>, LastOf(@)>>]
            /\ (pc[t] = "cc_unlock" /\ res[t].err = NoErr) => v2 = v
      ]_vars

\* A ColorCell call has made both its writes and is about to return nil.
C2_ColorCellSucceeded ==
    \E t \in Threads : pc[t] = "cc_unlock" /\ res[t].err = NoErr

(***************************************************************************)
(* C3.  A ColorCell that returns an error.                                 *)
(***************************************************************************)

\* C3: a ColorCell call that returns an error (color index, line or column
\* out of range, cell occupied, not adjacent) changes no grid cell and no
\* flow's point sequence, of its board or of any other, and nothing else
\* changes its board before it returns.
C3_ErrorLeavesBoardUnchanged ==
    [][\A t \in Threads :
        /\ (pc[t] = "cc_wait" /\ pc'[t] = "cc_unlock" /\ res'[t].err \in CCErrors)
               => [b \in 1..Len(boards) |-> View(boards'[b], mem')] = AllViews
        /\ (pc[t] = "cc_unlock" /\ res[t].err \in CCErrors)
               => View(boards'[bd[t]], mem') = BoardView(bd[t])
      ]_vars

\* A ColorCell call is about to return the not-adjacent error, the one it
\* finds after building the spliced sequence.
C3_ColorCellFailed ==
    \E t \in Threads : pc[t] = "cc_unlock" /\ res[t].err = ErrNotAjacent

(***************************************************************************)
(* C4.  Solved without concurrent calls.                                   *)
(***************************************************************************)

\* Every cell of the Lines x Cols grid g is there and is not zero.
GridFull(g) ==
    \A i \in 1..Len(g) : \A j \in 1..Len(g[1]) :
        j <= Len(g[i]) /\ g[i][j] # 0

\* The view v is that of a solved board.
SolvedView(v) ==
    /\ GridFull(v.grid)
    /\ \A k \in 1..Len(v.flows) : Chain(v.flows[k])

\* C4: when one goroutine makes its calls one after the other, Solved
\* returns true if and only if every cell of the grid is non-zero and every
\* two consecutive points of every flow, its last point included, are
\* neighbours; a Solved that panics, on a grid with a row missing, does so
\* on a board that is not solved.
C4_SolvedIffFullAndAdjacent ==
    \A t \in Threads :
        /\ pc[t] = "ret" => (res[t].ok <=> SolvedView(BoardView(bd[t])))
        /\ pc[t] = "panicked" => ~SolvedView(BoardView(bd[t]))

\* Solved is about to return true.
C4_SolvedReturnsTrue ==
    \E t \in Threads : pc[t] = "ret" /\ res[t].ok

(***************************************************************************)
(* C5.  Occupied cells.                                                    *)
(***************************************************************************)

\* The arguments a = <<k, r, c>> pass the color and range checks on board b
\* and name a cell that holds a color.
NamesOccupiedCell(b, a) ==
    /\ 0 <= a[1] /\ a[1] < Len(b.flows)
    /\ 0 <= a[2] /\ a[2] < Lines(b)
    /\ 0 <= a[3] /\ a[3] < Cols(b)
    /\ a[3] < Len(b.grid[a[2] + 1])
    /\ b.grid[a[2] + 1][a[3] + 1] # 0

\* C5: a ColorCell on a cell that holds a color, whichever color and whoever
\* put it there, fails with the cell-already-occupied error and changes no
\* board; and no step of any call changes the value of a grid cell that is
\* not zero.
C5_OccupiedCellRejected ==
    /\ [](\A t \in Threads : Entering(t) =>
            \A a \in CellArgs : NamesOccupiedCell(boards[bd[t]], a) =>
                ColorCellChecks(boards[bd[t]], mem, a[1], a[2], a[3]).res
                    = ErrOccupied)
    /\ [][/\ \A t \in Threads :
                (pc[t] = "cc_wait" /\ pc'[t] = "cc_unlock"
                                   /\ res'[t].err = ErrOccupied)
                    => [b \in 1..Len(boards) |-> View(boards'[b], mem')]
                           = AllViews
          /\ \A b \in 1..Len(boards) :
                \A i \in 1..Len(boards[b].grid) :
                    \A j \in 1..Len(boards[b].grid[i]) :
                        boards[b].grid[i][j] # 0 =>
                            boards'[b].grid[i][j] = boards[b].grid[i][j]
         ]_vars

\* A ColorCell call is about to return the cell-already-occupied error for a
\* cell that an earlier ColorCell colored.
C5_OccupiedReturned ==
    \E t \in Threads :
        /\ pc[t] = "cc_unlock" /\ res[t].err = ErrOccupied
        /\ \E k \in 1..Len(boards[bd[t]].flows) :
               boards[bd[t]].flows[k].len > 2

(***************************************************************************)
(* C6.  A new point away from the frontier.                                *)
(***************************************************************************)

\* The point before the last one of flow f: where the flow grows.
Frontier(f) == f[Len(f) - 1]

\* The board of the level "6,6\n0,0 2,2\n", whose only flow is
\* [(0,0), (2,2)], and what ColorCell(0, 0, 5) decides on it.
FrontierExample ==
    LET n == New(<<"6", ",", "6", NL, "0", ",", "0", " ", "2", ",", "2", NL>>)
        out == ColorCellChecks(n.board, n.board.mem, 0, 0, 5)
    IN  [passes |-> PassesChecks(n.board, <<0, 0, 5>>),
         flow   |-> Points(n.board.mem, n.board.flows[1]),
         res    |-> out.res,
         same   |-> View(n.board, out.mem) = View(n.board, n.board.mem)]

\* C6: a ColorCell(k, r, c) that passes the color, range and occupancy
\* checks while (r, c) is no neighbour of the point before flow k's last
\* point fails with the not-adjacent error, and changes no board; so does
\* ColorCell(k, 0, 5) on the flow [(0,0), (2,2)].
C6_AwayFromFrontierRejected ==
    /\ [](/\ FrontierExample.passes
          /\ FrontierExample.flow = <<<<0, 0>>, <<2, 2>>>>
          /\ FrontierExample.res = ErrNotAjacent
          /\ FrontierExample.same)
    /\ [](\A t \in Threads : Entering(t) =>
            \A a \in CellArgs :
                (/\ PassesChecks(boards[bd[t]], a)
                 /\ ~Adjacent4(Frontier(Points(mem,
                                   boards[bd[t]].flows[a[1] + 1])),
                               <<a[2], a[3]>>))
                => ColorCellChecks(boards[bd[t]], mem, a[1], a[2], a[3]).res
                       = ErrNotAjacent)
    /\ [][\A t \in Threads :
            (pc[t] = "cc_wait" /\ pc'[t] = "cc_unlock"
                               /\ res'[t].err = ErrNotAjacent)
                => [b \in 1..Len(boards) |-> View(boards'[b], mem')]
                       = AllViews
         ]_vars

\* A ColorCell call is about to return the not-adjacent error on a flow that
\* an earlier ColorCell extended: its frontier is no longer its first point.
C6_NotAdjacentReturned ==
    \E t \in Threads :
        /\ pc[t] = "cc_unlock" /\ res[t].err = ErrNotAjacent
        /\ \E k \in 1..Len(boards[bd[t]].flows) :
               boards[bd[t]].flows[k].len > 2

(***************************************************************************)
(* C7.  A board and its clones.                                            *)
(***************************************************************************)

\* C7: with a board and the clones taken of it, what a board shows (its
\* grid, hence every Get, its flows, hence Solved) changes only by one of
\* the two writes of a ColorCell call on that very board: no call on a
\* clone changes the original, none on the original changes a clone, though
\* they share the arrays of the flows that Clone copied.
C7_CloneIndependent ==
    [][\A b \in 1..Len(boards) :
          View(boards'[b], mem') # BoardView(b) =>
              \E t \in Threads :
                  bd[t] = b /\ Writing(t) /\ pc'[t] # pc[t]
      ]_vars

\* Two boards, one a clone of the other, still share the array of a flow
\* after a ColorCell call on one of them made it differ from the other.
C7_SharedStorageDifferentBoards ==
    \E b1 \in 1..Len(boards) : \E b2 \in 1..Len(boards) :
        /\ b1 # b2
        /\ BoardView(b1).flows # BoardView(b2).flows
        /\ \E k \in 1..Len(boards[b1].flows) :
               /\ k <= Len(boards[b2].flows)
               /\ boards[b1].flows[k].ptr = boards[b2].flows[k].ptr

(***************************************************************************)
(* C8.  The lock.                                                          *)
(***************************************************************************)

\* Goroutine t holds the write lock of its board: it is in ColorCell between
\* Lock's return and Unlock.
InWriteSection(t) == pc[t] \in {"cc_grid", "cc_flow", "cc_unlock"}

\* Goroutine t holds a read lock of its board: it is in Get, GridString or
\* ColorsString between RLock's return and RUnlock.
InReadSection(t) ==
    pc[t] \in {"get_runlock", "gs_runlock", "cs_runlock", "r_panic"}

\* Board b is between the two writes of a ColorCell call.
HalfWritten(b) == \E w \in Threads : bd[w] = b /\ pc[w] = "cc_flow"

\* C8: while a goroutine is in ColorCell between Lock and Unlock, no other
\* goroutine is in ColorCell, Get, GridString or ColorsString between its
\* lock and its unlock on the same board; and what GridString or
\* ColorsString is about to return is what the board shows, on a board that
\* is not between the two writes of a ColorCell.
C8_MutualExclusion ==
    \A t \in Threads :
        /\ InWriteSection(t) =>
               \A u \in Threads \ {t} :
                   bd[u] = bd[t] => ~InWriteSection(u) /\ ~InReadSection(u)
        /\ InReadSection(t) => ~HalfWritten(bd[t])
        /\ pc[t] = "gs_runlock" =>
               res[t].grid = RenderGrid(boards[bd[t]].grid)
        /\ pc[t] = "cs_runlock" =>
               res[t].colors = RenderColors(mem, boards[bd[t]].flows)

\* A ColorCell call is between its two writes while another goroutine waits
\* for the lock of the same board, to read or to write.
C8_WaitingForWriter ==
    \E w \in Threads : \E u \in Threads :
        /\ pc[w] = "cc_flow" /\ bd[u] = bd[w]
        /\ pc[u] \in {"get_rlock", "gs_rlock", "cs_rlock", "cc_lock"}

(***************************************************************************)
(* C9.  Clone while ColorCell runs.                                        *)
(***************************************************************************)

\* In the view v every colored cell is a point of some flow and every point
\* of a flow is a colored cell: v holds, of each ColorCell, both writes or
\* neither.
BothOrNeither(v) ==
    /\ \A i \in 1..Len(v.grid) : \A j \in 1..Len(v.grid[i]) :
           v.grid[i][j] # 0 =>
               \E k \in 1..Len(v.flows) : \E n \in 1..Len(v.flows[k]) :
                   v.flows[k][n] = <<i - 1, j - 1>>
    /\ \A k \in 1..Len(v.flows) : \A n \in 1..Len(v.flows[k]) :
           LET p == v.flows[k][n]
           IN  /\ p[1] + 1 \in 1..Len(v.grid)
               /\ p[2] + 1 \in 1..Len(v.grid[p[1] + 1])
               /\ v.grid[p[1] + 1][p[2] + 1] # 0

\* C9, as the comment on Clone has it: the board a Clone returns, whatever
\* ColorCell calls run meanwhile, holds of each of them both writes or
\* neither.  The program does not behave so.
C9_CloneIsSnapshot ==
    \A t \in Threads :
        pc[t] = "cl_ret" => BothOrNeither(View(tmp[t], mem))

(***************************************************************************)
(* C10.  Solved while ColorCell runs.                                      *)
(***************************************************************************)

\* What the board of goroutine w, which is between the two writes of a
\* ColorCell, showed before the call, and what it shows after it.
ViewBefore(w) ==
    [BoardView(bd[w]) EXCEPT !.grid[args[w][2] + 1][args[w][3] + 1] = 0]

ViewAfter(w) ==
    [BoardView(bd[w]) EXCEPT !.flows[args[w][1] + 1] = Points(mem, tmp[w])]

\* C10: a Solved that returns true while a ColorCell call on the same board
\* is still between its two writes has seen the grid write without the flow
\* update: the board is solved neither as it was before that ColorCell nor
\* as it is after it.
C10_TrueWhileHalfWrittenIsTorn ==
    \A s \in Threads : \A w \in Threads :
        (/\ pc[s] = "ret" /\ res[s].ok
         /\ pc[w] = "cc_flow" /\ bd[w] = bd[s])
        => ~SolvedView(ViewBefore(w)) /\ ~SolvedView(ViewAfter(w))

\* Solved is about to return true while a ColorCell call on the same board
\* has written the grid cell and not yet the flow.
C10_TornRead ==
    \E s \in Threads : \E w \in Threads :
        /\ pc[s] = "ret" /\ res[s].ok
        /\ pc[w] = "cc_flow" /\ bd[w] = bd[s]

(***************************************************************************)
(* C11.  Calls return.                                                     *)
(***************************************************************************)

\* The lock of every board is held by the goroutines that are between a
\* lock and its unlock, and by no other: a goroutine that has returned
\* holds nothing.
LocksHeldByCallsOnly ==
    \A b \in 1..Len(boards) :
        /\ boards[b].mu.w \in
               {0} \cup {t \in Threads :
                            bd[t] = b /\ (pc[t] = "cc_wait"
                                          \/ InWriteSection(t))}
        /\ boards[b].mu.readers =
               Cardinality({t \in Threads : bd[t] = b /\ InReadSection(t)})

\* Some goroutine is in a call, and some call under way can take a step.
SomeCallUnderWay == \E t \in Threads : pc[t] # "idle"

SomeCallCanStep == ENABLED (\E t \in Threads : Advance(t))

\* C11: with goroutines calling ColorCell, Get, GridString, ColorsString,
\* Clone, Solved, Lines and Cols on one board and a fair scheduler, every
\* call that has started returns; a goroutine that has returned, with nil,
\* with an error or by a panic, holds no lock; and in no reachable state
\* are the calls under way all stuck.
C11_EveryCallReturns ==
    /\ [](LocksHeldByCallsOnly /\ (SomeCallUnderWay => SomeCallCanStep))
    /\ \A t \in Threads : (pc[t] # "idle") ~> (pc[t] = "idle")

\* A ColorCell call has started and waits for the lock that another
\* goroutine holds.
C11_CallWaitsForLock ==
    \E t \in Threads : \E u \in Threads :
        /\ t # u
        /\ pc[t] = "cc_lock"
        /\ boards[bd[t]].mu.w = u

(***************************************************************************)
(* Parsing.  A program writes a level as text and gives it to New; then it *)
(* asks the board for its size and its cells.  env.level is the level the  *)
(* program meant: the size of the board and, line by line, the two         *)
(* terminals of a flow (<<>> for a line left blank); env.input is its      *)
(* text.                                                                   *)
(***************************************************************************)

MaxLines == 3
MaxCols == 3
MaxFlowLines == 2

Digit(d) ==
    CASE d = 0 -> "0" [] d = 1 -> "1" [] d = 2 -> "2" [] d = 3 -> "3"
      [] d = 4 -> "4" [] d = 5 -> "5" [] d = 6 -> "6" [] d = 7 -> "7"
      [] d = 8 -> "8" [] d = 9 -> "9"

\* The decimal text of a natural number.
RECURSIVE Itoa(_)
Itoa(n) == IF n < 10 THEN <<Digit(n)>> ELSE Itoa(n \div 10) \o <<Digit(n % 10)>>

\* 'lines,cols', as in '5,5'.
SizeText(lines, cols) == Itoa(lines) \o <<",">> \o Itoa(cols)

\* 'i,j i,j', as in '0,0 0,3'; nothing for a blank line.
FlowLineText(fl) ==
    IF fl = <<>> THEN <<>>
    ELSE Itoa(fl[1][1]) \o <<",">> \o Itoa(fl[1][2]) \o <<" ">>
         \o Itoa(fl[2][1]) \o <<",">> \o Itoa(fl[2][2])

\* The header and the flow lines, one per line; the last line ends with a
\* newline or not (nl).
RECURSIVE FlowLinesText(_, _)
FlowLinesText(fls, nl) ==
    IF fls = <<>> THEN <<>>
    ELSE FlowLineText(Head(fls))
         \o (IF Len(fls) > 1 \/ nl THEN <<NL>> ELSE <<>>)
         \o FlowLinesText(Tail(fls), nl)

LevelText(lv) ==
    SizeText(lv.lines, lv.cols) \o <<NL>> \o FlowLinesText(lv.flowLines, lv.nl)

\* The flow lines tried: terminals inside every board, terminals on the
\* third row or column (inside a board of three, equal to the size of a
\* board of two), terminals on the fourth column, and a blank line.
FlowLineCases ==
    { <<>>,
      <<<<0, 0>>, <<1, 1>>>>, <<<<0, 1>>, <<1, 0>>>>, <<<<1, 0>>, <<0, 0>>>>,
      <<<<0, 0>>, <<2, 0>>>>, <<<<0, 2>>, <<0, 0>>>>, <<<<2, 0>>, <<2, 1>>>>,
      <<<<0, 0>>, <<0, 3>>>> }

ParseLevels ==
    [lines : 1..MaxLines, cols : 1..MaxCols,
     flowLines : UNION {[1..n -> FlowLineCases] : n \in 0..MaxFlowLines},
     nl : BOOLEAN]

InitParse ==
    /\ \E lv \in ParseLevels : env = [input |-> LevelText(lv), level |-> lv]
    /\ boards = <<>>
    /\ mem = <<>>
    /\ pc = [t \in Threads |-> "idle"]
    /\ bd = [t \in Threads |-> 0]
    /\ args = [t \in Threads |-> <<>>]
    /\ tmp = [t \in Threads |-> <<>>]
    /\ res = [t \in Threads |-> NoRes]

\* New has made n = [board, err, panicked] of the text: goroutine t gets the
\* board and the error, or the panic of New.
NewGives(t, n) ==
    IF n.panicked
    THEN /\ pc' = [pc EXCEPT ![t] = "panicked"]
         /\ UNCHANGED <<boards, mem, res>>
    ELSE /\ pc' = [pc EXCEPT ![t] = "new_ret"]
         /\ boards' = <<[grid |-> n.board.grid, flows |-> n.board.flows,
                         mu |-> FreeMutex]>>
         /\ mem' = n.board.mem
         /\ res' = [res EXCEPT ![t] = [err |-> n.err]]

\* board, err := New(txt)
CallNew(t) ==
    /\ pc[t] = "idle"
    /\ Len(boards) = 0
    /\ NewGives(t, New(env.input))
    /\ UNCHANGED <<bd, args, tmp>>
    /\ UNCHANGED env

\* The program's one goroutine: New first, then calls on the board it got.
CallOnParsed(t) == Len(boards) > 0 /\ (CallGet(t, 1) \/ CallLines(t, 1) \/ CallCols(t, 1))

NextParse ==
    \/ CallNew(1)
    \/ CallOnParsed(1)
    \/ \E a \in GetArgs : GetRead(1, a[1], a[2])
    \/ RUnlock(1)
    \/ Return(1)

SpecParse == InitParse /\ [][NextParse]_vars

(***************************************************************************)
(* C12 - C14, C16.  What New makes of a level.                             *)
(***************************************************************************)

\* Point p lies on the board of level lv: in [0, lines) x [0, cols).
InBoard(lv, p) == 0 <= p[1] /\ p[1] < lv.lines /\ 0 <= p[2] /\ p[2] < lv.cols

\* The flow lines of lv that are not blank, in order.
FlowPairs(lv) == SelectSeq(lv.flowLines, LAMBDA fl : fl # <<>>)

\* Every flow line of lv names two points on the board, and no two
\* terminals of the level are the same point.
DistinctTerminalsOnBoard(lv) ==
    /\ \A k \in 1..Len(lv.flowLines) :
          /\ lv.flowLines[k] # <<>>
          /\ InBoard(lv, lv.flowLines[k][1])
          /\ InBoard(lv, lv.flowLines[k][2])
          /\ lv.flowLines[k][1] # lv.flowLines[k][2]
    /\ \A k \in 1..Len(lv.flowLines) : \A l \in 1..Len(lv.flowLines) :
          k # l => {lv.flowLines[k][1], lv.flowLines[k][2]}
                   \cap {lv.flowLines[l][1], lv.flowLines[l][2]} = {}

\* New was called by goroutine t and is over: it returns, or it panicked.
NewReturns(t) == pc[t] = "new_ret"
NewOver(t) == bd[t] = 0 /\ pc[t] \in {"new_ret", "panicked"}

\* Cell (r, c) of the board exists and holds v (what Get(r, c) returns).
CellHolds(b, r, c, v) ==
    /\ r < Len(boards[b].grid)
    /\ c < Len(boards[b].grid[r + 1])
    /\ boards[b].grid[r + 1][c + 1] = v

\* The flow, counted from 1, that has p as a terminal in level lv; 0 if
\* none has.
FlowWithTerminal(lv, p) ==
    IF \E k \in 1..Len(lv.flowLines) :
           lv.flowLines[k] # <<>> /\ p \in {lv.flowLines[k][1], lv.flowLines[k][2]}
    THEN CHOOSE k \in 1..Len(lv.flowLines) :
           lv.flowLines[k] # <<>> /\ p \in {lv.flowLines[k][1], lv.flowLines[k][2]}
    ELSE 0

\* C12: when New returns nil for a header and n flow lines with distinct
\* terminals on the board, the board has the n flows in the order of the
\* lines, flow k being [pointA, pointB] of line k, the two terminal cells of
\* flow k hold k + 1 (k counted from 0) and every other cell of the
\* lines x cols board holds 0.
C12_FlowsAndTerminalsAsWritten ==
    \A t \in Threads :
        (/\ NewReturns(t)
         /\ res[t].err = NoErr
         /\ DistinctTerminalsOnBoard(env.level))
        => /\ View(boards[1], mem).flows = env.level.flowLines
           /\ \A r \in 0..(env.level.lines - 1) :
                 \A c \in 0..(env.level.cols - 1) :
                    CellHolds(1, r, c, FlowWithTerminal(env.level, <<r, c>>))

\* C13: a level whose one flow line has a coordinate outside
\* [0, lines) x [0, cols), the row lines and the column cols included,
\* makes New return the format error, with no flow registered and no cell
\* of the grid marked.
OneLineOffBoard(lv) ==
    /\ Len(lv.flowLines) = 1
    /\ lv.flowLines[1] # <<>>
    /\ ~(InBoard(lv, lv.flowLines[1][1]) /\ InBoard(lv, lv.flowLines[1][2]))

C13_OffBoardLineRejected ==
    \A t \in Threads :
        (NewOver(t) /\ OneLineOffBoard(env.level))
        => /\ NewReturns(t)
           /\ res[t].err = ErrBadLine
           /\ boards[1].flows = <<>>
           /\ \A r \in 1..Len(boards[1].grid) :
                 \A c \in 1..Len(boards[1].grid[r]) : boards[1].grid[r][c] = 0

\* C14: blank lines are skipped without an error: when the lines that are
\* not blank name points on the board, New returns nil and the board has a
\* flow for each of them, in order, those after a blank line too.
BlankOrOnBoard(lv) ==
    \A k \in 1..Len(lv.flowLines) :
        \/ lv.flowLines[k] = <<>>
        \/ InBoard(lv, lv.flowLines[k][1]) /\ InBoard(lv, lv.flowLines[k][2])

C14_BlankLinesSkipped ==
    \A t \in Threads :
        (NewReturns(t) /\ BlankOrOnBoard(env.level))
        => /\ res[t].err = NoErr
           /\ View(boards[1], mem).flows = FlowPairs(env.level)

\* C16: a header 'lines,cols' with both positive, and no flow line, makes
\* New return a rectangular grid, square or not: lines rows of cols cells
\* each, so that Lines() = lines, Cols() = cols and every (r, c) with
\* r < lines and c < cols is a cell.
C16_RectangularGrid ==
    \A t \in Threads :
        (NewOver(t) /\ env.level.flowLines = <<>>)
        => /\ NewReturns(t)
           /\ res[t].err = NoErr
           /\ Lines(boards[1]) = env.level.lines
           /\ \A r \in 1..Len(boards[1].grid) :
                 Len(boards[1].grid[r]) = env.level.cols

(***************************************************************************)
(* C15.  AreAjacent, applied to two points.                                *)
(***************************************************************************)

\* A program picks two points (env.point, env.nextPoint) and asks whether
\* they are adjacent.
InitAjacent ==
    /\ \E p \in (0..MaxCoord) \X (0..MaxCoord) :
       \E q \in (0..MaxCoord) \X (0..MaxCoord) :
          env = [point |-> p, nextPoint |-> q]
    /\ boards = <<>>
    /\ mem = <<>>
    /\ pc = [t \in Threads |-> "idle"]
    /\ bd = [t \in Threads |-> 0]
    /\ args = [t \in Threads |-> <<>>]
    /\ tmp = [t \in Threads |-> <<>>]
    /\ res = [t \in Threads |-> NoRes]

\* AreAjacent(point, nextPoint), then the same question the other way round.
CallAreAjacent(t) ==
    /\ pc[t] = "idle"
    /\ pc' = [pc EXCEPT ![t] = "aj_again"]
    /\ res' = [res EXCEPT ![t] = [ok |-> AreAjacent(env.point, env.nextPoint)]]
    /\ UNCHANGED <<boards, mem, bd, args, tmp, env>>

CallAreAjacentBack(t) ==
    /\ pc[t] = "aj_again"
    /\ pc' = [pc EXCEPT ![t] = "ret"]
    /\ tmp' = [tmp EXCEPT ![t] = res[t]]
    /\ res' = [res EXCEPT ![t] = [ok |-> AreAjacent(env.nextPoint, env.point)]]
    /\ UNCHANGED <<boards, mem, bd, args, env>>

NextAjacent == CallAreAjacent(1) \/ CallAreAjacentBack(1) \/ Return(1)

SpecAjacent == InitAjacent /\ [][NextAjacent]_vars

\* dx^2 + dy^2 of two points.
SquaredDistance(p, q) ==
    (p[1] - q[1]) * (p[1] - q[1]) + (p[2] - q[2]) * (p[2] - q[2])

\* C15: AreAjacent(p, q) is true exactly when dx^2 + dy^2 = 1: it gives the
\* same answer for (q, p), and false for p = q and for diagonal neighbours.
C15_AdjacentIffUnitDistance ==
    \A t \in Threads :
        /\ pc[t] = "aj_again"
           => res[t].ok = (SquaredDistance(env.point, env.nextPoint) = 1)
        /\ pc[t] = "ret"
           => /\ res[t].ok = (SquaredDistance(env.point, env.nextPoint) = 1)
              /\ res[t].ok = tmp[t].ok
              /\ (env.point = env.nextPoint => ~res[t].ok)
              /\ (SquaredDistance(env.point, env.nextPoint) = 2 => ~res[t].ok)

\* Both questions were asked of two neighbours and answered true.
C15_NeighboursBothWays ==
    \E t \in Threads :
        /\ pc[t] = "ret" /\ res[t].ok /\ tmp[t].ok
        /\ SquaredDistance(env.point, env.nextPoint) = 1

(***************************************************************************)
(* Play.  Goroutines color the cells of a board New made, and ask whether  *)
(* it is solved: boards of two flows, with room to color, full from the    *)
(* start, and with a point that ends two flows.                            *)
(***************************************************************************)

\* Two flows on nine cells, five of them empty.
Level6 ==
    <<"3", ",", "3", NL, "0", ",", "0", " ", "2", ",", "2", NL,
      "1", ",", "1", " ", "2", ",", "0", NL>>
\* Full from the start: solved (Level7), and with no flow a chain (Level8).
Level7 ==
    <<"2", ",", "2", NL, "0", ",", "0", " ", "0", ",", "1", NL,
      "1", ",", "0", " ", "1", ",", "1", NL>>
Level8 ==
    <<"2", ",", "2", NL, "0", ",", "0", " ", "1", ",", "1", NL,
      "0", ",", "1", " ", "1", ",", "0", NL>>
PlayLevels == {Level3, Level4, Level6, Level7, Level8}

InitPlay ==
    /\ \E txt \in PlayLevels : Made(New(txt), txt)
    /\ pc = [t \in Threads |-> "idle"]
    /\ bd = [t \in Threads |-> 0]
    /\ args = [t \in Threads |-> <<>>]
    /\ tmp = [t \in Threads |-> <<>>]
    /\ res = [t \in Threads |-> NoRes]

NextPlay ==
    \E t \in Threads :
        \/ CallColorCell(t, 1)
        \/ CCLock(t)
        \/ \E a \in CellArgs : CCEnter(t, a[1], a[2], a[3])
        \/ CCGrid(t)
        \/ CCFlow(t)
        \/ CCUnlock(t)
        \/ CallSolved(t, 1)
        \/ SolvedCell(t)
        \/ SolvedFlow(t)
        \/ Return(t)

SpecPlay == InitPlay /\ [][NextPlay]_vars

(***************************************************************************)
(* C17.  The grid and the flows agree.                                     *)
(***************************************************************************)

\* Point p is an element of the point sequence f.
InFlow(f, p) == \E i \in 1..Len(f) : f[i] = p

\* In the view v every non-zero cell (r, c), with value n, is a point of
\* flow n - 1 (counted from 0) and of no other flow, and every cell that is
\* in no flow holds 0.
GridMatchesFlows(v) ==
    \A r \in 1..Len(v.grid) : \A c \in 1..Len(v.grid[r]) :
        LET n == v.grid[r][c]
            p == <<r - 1, c - 1>>
        IN  /\ n # 0 =>
                 /\ n \in 1..Len(v.flows)
                 /\ \A k \in 1..Len(v.flows) : InFlow(v.flows[k], p) <=> k = n
            /\ (\A k \in 1..Len(v.flows) : ~InFlow(v.flows[k], p)) => n = 0

\* A ColorCell call on board b has started and has not returned.
ColorCellInProgress(b) ==
    \E t \in Threads :
        bd[t] = b /\ pc[t] \in {"cc_lock", "cc_wait", "cc_grid", "cc_flow",
                                "cc_unlock"}

\* No point is a terminal (the first or the last point) of two flows of v.
TerminalsApart(v) ==
    \A k \in 1..Len(v.flows) : \A l \in 1..Len(v.flows) :
        k # l => {Head(v.flows[k]), LastOf(v.flows[k])}
                 \cap {Head(v.flows[l]), LastOf(v.flows[l])} = {}

C18_FlowsAreChainsUpToTerminal ==
    \A b \in 1..Len(boards) : \A k \in 1..Len(boards[b].flows) :
        /\ Len(BoardView(b).flows[k]) >= 2
        /\ Chain(AllButLast(BoardView(b).flows[k]))

\* A flow that was extended twice: three points, then its terminal.
C18_FlowExtendedTwice ==
    \E b \in 1..Len(boards) : \E k \in 1..Len(boards[b].flows) :
        Len(BoardView(b).flows[k]) >= 4

(***************************************************************************)
(* C20.  A full board.                                                     *)
(***************************************************************************)

\* On a board whose grid is full, every ColorCell call that takes the lock
\* fails, whatever its arguments.
NoCallSucceedsOnFullBoard ==
    \A t \in Threads :
        (Entering(t) /\ GridFull(boards[bd[t]].grid))
        => \A a \in CellArgs :
              ColorCellChecks(boards[bd[t]], mem, a[1], a[2], a[3]).res
                  \in CCErrors

\* A step leaves board b as it is, and with it what Solved makes of it.
BoardStays(b) ==
    /\ BoardView(b)' = BoardView(b)
    /\ SolvedView(BoardView(b))' = SolvedView(BoardView(b))

\* C20, as stated: once every cell of the grid is non-zero, every later
\* ColorCell call fails and the board never changes again, so that what
\* Solved makes of it never changes: a solved board stays solved, a full
\* board that is not solved never becomes solved.  The ColorCell call that
\* fills the last cell has written the grid before it writes the flow: the
\* grid is full and the board still changes once.
C20_FullBoardNeverChanges ==
    /\ []NoCallSucceedsOnFullBoard
    /\ [][\A b \in 1..Len(boards) :
             GridFull(boards[b].grid) => BoardStays(b)]_vars

\* C20, amended: the same, from the moment the grid is full and no
\* ColorCell call is between its write of the grid and its write of the
\* flow.
C20_FullBoardAtRestNeverChanges ==
    /\ []NoCallSucceedsOnFullBoard
    /\ [][\A b \in 1..Len(boards) :
             (GridFull(boards[b].grid) /\ ~HalfWritten(b)) => BoardStays(b)]_vars

\* ColorCell calls filled a board, and a later call on it has failed: the
\* cell is occupied.
C20_CallFailedOnFilledBoard ==
    \E t \in Threads :
        /\ pc[t] = "cc_unlock" /\ res[t].err = ErrOccupied
        /\ GridFull(boards[bd[t]].grid) /\ ~HalfWritten(bd[t])
        /\ \E k \in 1..Len(boards[bd[t]].flows) : boards[bd[t]].flows[k].len > 2

(***************************************************************************)
(* C19.  A race for one cell.  Every goroutine calls ColorCell once, for   *)
(* the same empty cell env.cell, goroutine t with the color env.plan[t];   *)
(* the calls overlap in every way.  env.got[t] is what the call of t       *)
(* returned, once it has.                                                  *)
(***************************************************************************)

RaceLevels == {Level2, Level4, Level6}

\* The empty cells of a grid, as points.
EmptyCells(grid) ==
    {p \in (0..MaxCoord) \X (0..MaxCoord) :
        /\ p[1] < Len(grid)
        /\ p[2] < Len(grid[p[1] + 1])
        /\ grid[p[1] + 1][p[2] + 1] = 0}

\* The board New made of txt, n = New(txt), is raced on: for one of its
\* empty cells, each goroutine with one of its colors.
RaceMade(n, txt) ==
    /\ boards = <<[grid |-> n.board.grid, flows |-> n.board.flows,
                   mu |-> FreeMutex]>>
    /\ mem = n.board.mem
    /\ \E cell \in EmptyCells(n.board.grid) :
       \E plan \in [Threads -> 0..(Len(n.board.flows) - 1)] :
          env = [input |-> txt, cell |-> cell, plan |-> plan,
                 got |-> [t \in Threads |-> NoRes]]

InitRace ==
    /\ \E txt \in RaceLevels : RaceMade(New(txt), txt)
    /\ pc = [t \in Threads |-> "idle"]
    /\ bd = [t \in Threads |-> 0]
    /\ args = [t \in Threads |-> <<>>]
    /\ tmp = [t \in Threads |-> <<>>]
    /\ res = [t \in Threads |-> NoRes]

\* Goroutine t makes its one call.
RaceCall(t) ==
    /\ env.got[t] = NoRes
    /\ CallColorCell(t, 1)

\* ... with the arguments it planned.
RaceEnter(t) == CCEnter(t, env.plan[t], env.cell[1], env.cell[2])

\* The call returns, and the goroutine keeps what it returned.
RaceReturn(t) ==
    /\ DeferredUnlock(t)
    /\ env' = [env EXCEPT !.got[t] = res[t]]

NextRace ==
    \E t \in Threads :
        \/ RaceCall(t)
        \/ CCLock(t)
        \/ RaceEnter(t)
        \/ CCGrid(t)
        \/ CCFlow(t)
        \/ RaceReturn(t)

SpecRace == InitRace /\ [][NextRace]_vars

\* Every call of the race has returned; the calls that succeeded.
RaceOver == \A t \in Threads : env.got[t] # NoRes

Winners == {t \in Threads : env.got[t] # NoRes /\ env.got[t].err = NoErr}

\* How often point p occurs in the point sequence f.
Occurrences(f, p) == Cardinality({i \in 1..Len(f) : f[i] = p})

\* The cell raced for holds the color of call w, and is a point of exactly
\* one flow, once.
CellGoesTo(w) ==
    /\ boards[1].grid[env.cell[1] + 1][env.cell[2] + 1] = env.plan[w] + 1
    /\ \A k \in 1..Len(boards[1].flows) :
          Occurrences(BoardView(1).flows[k], env.cell)
              = IF k = env.plan[w] + 1 THEN 1 ELSE 0

\* C19, as stated: when the goroutines call ColorCell concurrently for the
\* same empty cell, with equal or different color indexes, at most one call
\* succeeds; afterwards the cell holds the successful call's colorIndex + 1
\* and is a point of exactly one flow, once; and every other call returned
\* the cell-already-occupied error.  A call of another color that took the
\* lock before the successful one returned the not-adjacent error instead.
C19_LosersFindCellOccupied ==
    /\ Cardinality(Winners) <= 1
    /\ RaceOver =>
          \A w \in Winners :
              /\ CellGoesTo(w)
              /\ \A t \in Threads \ {w} : env.got[t].err = ErrOccupied

\* C19, amended: at most one call succeeds; afterwards the cell holds the
\* successful call's colorIndex + 1 and is a point of exactly one flow,
\* once; and every other call returned an error: cell-already-occupied, or,
\* only for a call of another color whose flow's frontier is no neighbour
\* of the cell, not-adjacent.
C19_LosersFail ==
    /\ Cardinality(Winners) <= 1
    /\ RaceOver =>
          \A w \in Winners :
              /\ CellGoesTo(w)
              /\ \A t \in Threads \ {w} :
                    \/ env.got[t].err = ErrOccupied
                    \/ /\ env.got[t].err = ErrNotAjacent
                       /\ env.plan[t] # env.plan[w]
                       /\ ~Adjacent4(Frontier(BoardView(1).flows[env.plan[t] + 1]),
                                     env.cell)

\* The race is over: one call of each kind, a successful one and one of
\* another color that found the cell occupied.
C19_RaceWonAndLost ==
    /\ RaceOver
    /\ \E w \in Winners : \E t \in Threads :
          env.got[t].err = ErrOccupied /\ env.plan[t] # env.plan[w]

====
